---- MODULE Spec2Model ----
(***************************************************************************)
(* Model of the masajid-usa data pipeline: scripts/fetch_masajid.py        *)
(* (fetch-all = main, fetch-single-region = fetch_single_state) and        *)
(* scripts/cleanup_data.py (cleanup = main there).                         *)
(*                                                                         *)
(* Encodings.  A Python dict is a function whose DOMAIN is its key set; a  *)
(* dict whose key order matters (state_counts) is a sequence of            *)
(* <<key, value>> pairs in insertion order.  An optional value (None or a  *)
(* value) is a sequence of length 0 or 1.  The return value of             *)
(* fetch_masajid_for_state is [none |-> BOOLEAN, list |-> Seq], so that    *)
(* None and the empty list stay distinct.  The states directory is a       *)
(* function from the file names that exist to the parsed JSON contents.    *)
(* Coordinates are integers (degrees).  A write is two steps, open (the    *)
(* file is truncated and listed in partial) and dump.                      *)
(*                                                                         *)
(* Spec is the whole program from a fresh checkout.  SpecParse sends one   *)
(* raw element of every tag layout through fetch-one, SpecCleanup runs     *)
(* cleanup over every directory the fetch path can have written, and       *)
(* SpecCorrupt runs cleanup and the index rebuild over damaged files.      *)
(***************************************************************************)
EXTENDS Integers, Sequences, FiniteSets, TLC

VARIABLES files, partial, index, op, pc, i, state_name, attempt, net_log,
          masajid, failed_states, reported, attempted, listing, j, cl_counts,
          cl_total, cl_data, waited, cleaned, osm_element

vars == <<files, partial, index, op, pc, i, state_name, attempt, net_log,
          masajid, failed_states, reported, attempted, listing, j, cl_counts,
          cl_total, cl_data, waited, cleaned, osm_element>>

-----------------------------------------------------------------------------
(* Bounds and program constants *)

\* Longest "elements" list of an upstream response.
MaxElements == 2

\* The region catalog, in the order of the dict literal.  Two of its 51
\* entries: district_of_columbia is last in the catalog although it sorts
\* before florida.
US_STATES == <<"florida", "district_of_columbia">>

\* Default of the retries parameter.
retries == 3

\* Option encoding of Python's None.
None == <<>>

Some(v) == <<v>>

-----------------------------------------------------------------------------
(* Strings *)

\* state_name.replace('_', ' ').title()
Title(s) ==
    CASE s = "florida" -> "Florida"
      [] s = "district_of_columbia" -> "District Of Columbia"
      [] OTHER -> s

\* str.strip() on the record names of the model.
Strip(s) ==
    CASE s = " Unknown Masjid " -> "Unknown Masjid"
      [] OTHER -> s

\* Code-point order of the strings that get sorted (file names, index keys).
CodePointOrder ==
    <<"District Of Columbia", "Florida",
      "district_of_columbia.json", "florida.json">>

StrRank(s) == CHOOSE k \in 1..Len(CodePointOrder) : CodePointOrder[k] = s

StrLess(a, b) == StrRank(a) < StrRank(b)

\* f"{state_name}.json"
FileName(s) == s \o ".json"

-----------------------------------------------------------------------------
(* dict helpers *)

\* d.get(k, default)
Get(d, k, default) == IF k \in DOMAIN d THEN d[k] ELSE default

\* d.get(k), None when the key is absent
GetOpt(d, k) == IF k \in DOMAIN d THEN Some(d[k]) ELSE None

\* The truth test lost: a missing coordinate passes.
Truthy_Always(o) == TRUE

\* Truthiness of an optional number: None and 0 are falsy.
Truthy(o) == o # None /\ o[1] # 0

\* d[k] = v on an insertion-ordered dict
DictSet(d, k, v) ==
    IF \E n \in 1..Len(d) : d[n][1] = k
    THEN [n \in 1..Len(d) |-> IF d[n][1] = k THEN <<k, v>> ELSE d[n]]
    ELSE Append(d, <<k, v>>)

RECURSIVE SeqSum(_)
SeqSum(s) == IF s = <<>> THEN 0 ELSE Head(s) + SeqSum(Tail(s))

\* {k: v for k, v in d.items() if v > 0}
FilterPositive(d) == SelectSeq(d, LAMBDA kv : kv[2] > 0)

RECURSIVE InsertByKey(_, _)
InsertByKey(kv, s) ==
    IF s = <<>> THEN <<kv>>
    ELSE IF StrLess(kv[1], Head(s)[1]) THEN <<kv>> \o s
    ELSE <<Head(s)>> \o InsertByKey(kv, Tail(s))

\* dict(sorted(d.items()))
RECURSIVE SortedItems(_)
SortedItems(d) ==
    IF d = <<>> THEN <<>> ELSE InsertByKey(Head(d), SortedItems(Tail(d)))

\* sorted(names) for a set of strings
RECURSIVE SortedNames(_)
SortedNames(S) ==
    IF S = {} THEN <<>>
    ELSE LET m == CHOOSE x \in S : \A y \in S : x = y \/ StrLess(x, y)
         IN  <<m>> \o SortedNames(S \ {m})

\* All orders in which a directory scan may deliver the set S.
Orders(S) ==
    {s \in [1..Cardinality(S) -> S] : \A a, b \in DOMAIN s : a # b => s[a] # s[b]}

-----------------------------------------------------------------------------
(* Upstream responses *)

\* Raw elements the upstream service may return.  Tags are a dict of strings.
NoTags == [k \in {} |-> ""]

ElemNamed ==
    [type |-> "node", id |-> 1, lat |-> 40, lon |-> -75,
     tags |-> ("name" :> "Masjid Al-Noor")]

ElemUnnamed ==
    [type |-> "node", id |-> 2, lat |-> 28, lon |-> -81, tags |-> NoTags]

ElemNoCenter ==
    [type |-> "way", id |-> 3, tags |-> ("name" :> "Masjid Al-Noor")]

ElemNoType == [id |-> 4, lat |-> 40, lon |-> -75]

ElementPool == {ElemNamed, ElemUnnamed, ElemNoCenter, ElemNoType}

SeqsUpTo(S, n) == UNION {[1..k -> S] : k \in 0..n}

\* response.json(): a dict with an "elements" list, or a dict without one.
Responses ==
    {[elements |-> es] : es \in SeqsUpTo(ElementPool, MaxElements)}
        \cup {[remark |-> "runtime error"]}

-----------------------------------------------------------------------------
(* Record Normalizer: parse_masjid *)

\* The lookups element["type"] and element['id'] raise KeyError on a missing key.
Coordinates(element) ==
    IF element["type"] = "node"
    THEN [lat |-> GetOpt(element, "lat"), lon |-> GetOpt(element, "lon")]
    ELSE LET center == Get(element, "center", [k \in {} |-> 0])
         IN  [lat |-> GetOpt(center, "lat"), lon |-> GetOpt(center, "lon")]

HasCoordinates(element) ==
    LET c == Coordinates(element) IN Truthy(c.lat) /\ Truthy(c.lon)

ParseRaises(element) ==
    IF "type" \notin DOMAIN element THEN TRUE
    ELSE HasCoordinates(element) /\ "id" \notin DOMAIN element

ResolveName(tags) ==
    Get(tags, "name", Get(tags, "name:en", Get(tags, "name:ar", "Unknown Masjid")))

\* The combining step lost: the dict literal's street is all there is.
ResolveStreet_NoJoin(tags) ==
    Get(tags, "addr:street", Get(tags, "addr:housenumber", ""))

ResolveStreet(tags) ==
    LET house_number == Get(tags, "addr:housenumber", "")
        street == Get(tags, "addr:street", "")
    IN  IF house_number # "" /\ street # "" THEN house_number \o " " \o street
        ELSE IF street # "" THEN street
        ELSE Get(tags, "addr:street", Get(tags, "addr:housenumber", ""))

\* parse_masjid(element, state_name): None or Some(record); defined when
\* ~ParseRaises(element).  lat and lon are stored as element.get returned
\* them, in the option encoding: <<v>> for a value, None for null.
parse_masjid(element, sn) ==
    LET tags == Get(element, "tags", NoTags)
        c == Coordinates(element)
    IN  IF ~(Truthy(c.lat) /\ Truthy(c.lon)) THEN None
        ELSE Some(
           [id |-> element["type"] \o "_" \o ToString(element["id"]),
            name |-> ResolveName(tags),
            address |->
               [street |-> ResolveStreet(tags),
                city |-> Get(tags, "addr:city", ""),
                state |-> Get(tags, "addr:state", Title(sn)),
                zip |-> Get(tags, "addr:postcode", ""),
                full |-> Get(tags, "addr:full", "")],
            phone |-> Get(tags, "phone", Get(tags, "contact:phone", "")),
            website |-> Get(tags, "website", Get(tags, "contact:website", "")),
            email |-> Get(tags, "email", Get(tags, "contact:email", "")),
            coordinates |-> [lat |-> c.lat, lon |-> c.lon],
            denomination |-> Get(tags, "denomination", ""),
            opening_hours |-> Get(tags, "opening_hours", ""),
            osm_type |-> element["type"],
            osm_id |-> element["id"]])

\* The loop of fetch_masajid_for_state over data.get("elements", []).
RECURSIVE ParseAll(_, _)
ParseAll(elements, sn) ==
    IF elements = <<>> THEN <<>>
    ELSE parse_masjid(Head(elements), sn) \o ParseAll(Tail(elements), sn)

ResponseRaises(data) ==
    \E n \in DOMAIN Get(data, "elements", <<>>) : ParseRaises(data["elements"][n])

\* What the try block of fetch_masajid_for_state computes from the responses
\* that parse: for each region, the lists it can return.
ParsedLists ==
    [sn \in {US_STATES[n] : n \in DOMAIN US_STATES} |->
        {ParseAll(Get(data, "elements", <<>>), sn) :
            data \in {d \in Responses : ~ResponseRaises(d)}}]

\* Whether some response makes the try block raise past its except clause.
SomeResponseRaises == \E data \in Responses : ResponseRaises(data)

-----------------------------------------------------------------------------
(* Region Store and Aggregate Index Builder *)

\* The states directory after open(path, "w") and json.dump(data).
WriteFile(fs, name, data) ==
    [n \in DOMAIN fs \cup {name} |-> IF n = name THEN data ELSE fs[n]]

\* save_state_data(state_name, masajid, output_dir)
save_state_data(fs, sn, ms) ==
    WriteFile(fs, FileName(sn),
              [state |-> Title(sn), count |-> Len(ms), masajid |-> ms])

\* The body of the loop of create_master_index over the files in scan order.
RECURSIVE ScanCounts(_, _)
ScanCounts(fs, order) ==
    IF order = <<>> THEN <<>>
    ELSE LET rest == ScanCounts(fs, SubSeq(order, 1, Len(order) - 1))
             state_data == fs[order[Len(order)]]
         IN  DictSet(rest, state_data.state, state_data.count)

RECURSIVE ScanMasajid(_, _)
ScanMasajid(fs, order) ==
    IF order = <<>> THEN <<>>
    ELSE fs[Head(order)].masajid \o ScanMasajid(fs, Tail(order))

\* all_masajid rebound instead of extended: only the last file is counted.
create_master_index_LastOnly(fs, order) ==
    [total_count |->
        IF order = <<>> THEN 0 ELSE Len(fs[order[Len(order)]].masajid),
     state_counts |-> ScanCounts(fs, order)]

\* create_master_index(output_dir), the glob delivering the files in `order`.
create_master_index(fs, order) ==
    [total_count |-> Len(ScanMasajid(fs, order)),
     state_counts |-> ScanCounts(fs, order)]

\* The strip lost: only the exact sentinel text is removed.
KeepRecord_NoStrip(m) == Get(m, "name", "") # "Unknown Masjid"

\* The list comprehension of clean_state_file.
KeepRecord(m) == Strip(Get(m, "name", "")) # "Unknown Masjid"

\* The count update lost: the filtered list is written with the old count.
clean_state_file_StaleCount(data) ==
    [data EXCEPT !.masajid = SelectSeq(data.masajid, KeepRecord)]

\* Stops at the first sentinel record: the later ones are kept.
RECURSIVE DropFirstUnknown(_)
DropFirstUnknown(ms) ==
    IF ms = <<>> THEN <<>>
    ELSE IF KeepRecord(Head(ms)) THEN <<Head(ms)>> \o DropFirstUnknown(Tail(ms))
    ELSE Tail(ms)

clean_state_file_FirstOnly(data) ==
    LET kept == DropFirstUnknown(data.masajid)
    IN  [data EXCEPT !.masajid = kept, !.count = Len(kept)]

\* clean_state_file(filepath): the rewritten file contents.
clean_state_file(data) ==
    LET kept == SelectSeq(data.masajid, KeepRecord)
    IN  [data EXCEPT !.masajid = kept, !.count = Len(kept)]

\* The index written by cleanup's main from its state_counts and total_count.
cleanup_index(state_counts, total_count) ==
    [total_count |-> total_count,
     state_counts |-> SortedItems(FilterPositive(state_counts))]

-----------------------------------------------------------------------------
(* The processes *)

diskVars == <<files, partial, index>>

mainVars == <<i, failed_states, reported, attempted>>

fetchVars == <<state_name, attempt, net_log, masajid>>

cleanVars == <<listing, j, cl_counts, cl_total, cl_data>>

Idle == pc \in {"idle", "done", "raised", "killed"}

NoReturn == [none |-> TRUE, list |-> <<>>]

\* What a reader finds in a file between open(path, "w") and the end of
\* json.dump: a prefix of the JSON text, which does not parse.
Truncated == [state |-> "", count |-> 0, masajid |-> <<>>]

\* The process has not been started: no locals.
InitLocals ==
    /\ op = "none"
    /\ pc = "idle"
    /\ i = 1
    /\ state_name = ""
    /\ attempt = 0
    /\ net_log = <<>>
    /\ masajid = NoReturn
    /\ failed_states = <<>>
    /\ reported = <<>>
    /\ attempted = <<>>
    /\ listing = <<>>
    /\ j = 1
    /\ cl_counts = <<>>
    /\ cl_total = 0
    /\ cl_data = <<>>
    /\ waited = 0
    /\ cleaned = FALSE

\* A fresh checkout: an empty states directory and no index.
Init ==
    /\ files = [n \in {} |-> 0]
    /\ partial = {}
    /\ index = <<>>
    /\ osm_element = <<>>
    /\ InitLocals

\* Locals of an entry point that is starting.
FreshLocals ==
    /\ i' = 1
    /\ attempt' = 0
    /\ net_log' = <<>>
    /\ masajid' = NoReturn
    /\ failed_states' = <<>>
    /\ reported' = <<>>
    /\ attempted' = <<>>
    /\ listing' = <<>>
    /\ j' = 1
    /\ cl_counts' = <<>>
    /\ cl_total' = 0
    /\ cl_data' = <<>>
    /\ waited' = 0

\* The locals of a fetch_masajid_for_state call that is over: they are rebound
\* before they are read again.
ClearFetchLocals ==
    /\ state_name' = ""
    /\ attempt' = 0
    /\ net_log' = <<>>
    /\ masajid' = NoReturn

\* The locals of cleanup's main once the process has exited.
ClearCleanupLocals ==
    /\ listing' = <<>>
    /\ j' = 1
    /\ cl_counts' = <<>>
    /\ cl_total' = 0
    /\ cl_data' = <<>>

\* The process ends with a traceback: its locals are gone.
Traceback ==
    /\ pc' = "raised"
    /\ i' = 1
    /\ failed_states' = <<>>
    /\ attempted' = <<>>
    /\ waited' = 0
    /\ cleaned' = FALSE
    /\ ClearFetchLocals
    /\ ClearCleanupLocals
    /\ UNCHANGED <<diskVars, op, reported, osm_element>>

\* open(path, "w"): the file exists and holds a prefix of what is written.
OpenForWrite(fs, name) == WriteFile(fs, name, Truncated)

\* Off by one: gives up after the second failure.
RetryAgain_OffByOne(a) == a < retries - 2

\* Whether the except clause retries (sleeps and loops) or gives up.
RetryAgain(a) == a < retries - 1

\* The same wait before every retry.
wait_time_Constant(a) == 10

\* wait_time = (attempt + 1) * 10
wait_time(a) == (a + 1) * 10

\* One pass of the retry loop of fetch_masajid_for_state: the request raises
\* RequestException; time.sleep(wait_time) unless it was the last pass.
AttemptFails ==
    /\ pc = "fetch"
    /\ net_log' = Append(net_log, "RequestException")
    /\ IF RetryAgain(attempt)
       THEN /\ attempt' = attempt + 1
            /\ waited' = wait_time(attempt)
            /\ UNCHANGED <<pc, masajid>>
       ELSE /\ masajid' = [none |-> TRUE, list |-> <<>>]
            /\ pc' = "returned"
            /\ waited' = 0
            /\ UNCHANGED attempt
    /\ UNCHANGED <<diskVars, op, mainVars, state_name, cleanVars, cleaned,
                   osm_element>>

\* One pass of the retry loop: the request succeeds and the body is parsed.
AttemptSucceeds ==
    /\ pc = "fetch"
    /\ \E parsed \in ParsedLists[state_name] :
          masajid' = [none |-> FALSE, list |-> parsed]
    /\ net_log' = Append(net_log, "ok")
    /\ pc' = "returned"
    /\ waited' = 0
    /\ UNCHANGED <<diskVars, op, mainVars, state_name, attempt, cleanVars,
                   cleaned, osm_element>>

\* One pass of the retry loop: parse_masjid raises KeyError, which the except
\* clause (RequestException only) does not catch; the process ends with a traceback.
AttemptRaises ==
    /\ pc = "fetch"
    /\ SomeResponseRaises
    /\ Traceback

-----------------------------------------------------------------------------
(* fetch-all: main of fetch_masajid.py *)

\* python fetch_masajid.py
StartMain ==
    /\ Idle
    /\ op' = "main"
    /\ pc' = "loop"
    /\ state_name' = ""
    /\ cleaned' = FALSE
    /\ FreshLocals
    /\ UNCHANGED <<diskVars, osm_element>>

\* The existence check lost: every region is fetched again.
state_file_exists_Never(fs, sn) == FALSE

\* state_file.exists()
state_file_exists(fs, sn) == FileName(sn) \in DOMAIN fs

\* The outcome of a fetch call as the history records it.
Outcome(r) ==
    IF r.none THEN "failed" ELSE IF r.list = <<>> THEN "empty" ELSE "success"

SetLast(s, v) == [s EXCEPT ![Len(s)] = v]

\* Loop body, state_file.exists(): the file is read for its count and the
\* region is skipped, with no pause.
MainSkip ==
    /\ op = "main" /\ pc = "loop"
    /\ i <= Len(US_STATES)
    /\ state_file_exists(files, US_STATES[i])
    /\ FileName(US_STATES[i]) \notin partial
    /\ i' = i + 1
    /\ UNCHANGED <<diskVars, op, pc, fetchVars, failed_states, reported,
                   attempted, cleanVars, waited, cleaned, osm_element>>

\* Loop body, state_file.exists(), and json.load raises on a file that an
\* interrupted write left truncated.
MainSkipRaises ==
    /\ op = "main" /\ pc = "loop"
    /\ i <= Len(US_STATES)
    /\ state_file_exists(files, US_STATES[i])
    /\ FileName(US_STATES[i]) \in partial
    /\ Traceback

\* Loop body, no file: fetch_masajid_for_state(state_name, bbox) is called.
MainFetch ==
    /\ op = "main" /\ pc = "loop"
    /\ i <= Len(US_STATES)
    /\ ~state_file_exists(files, US_STATES[i])
    /\ state_name' = US_STATES[i]
    /\ attempt' = 0
    /\ net_log' = <<>>
    /\ masajid' = NoReturn
    /\ attempted' = Append(attempted, <<US_STATES[i], "pending">>)
    /\ pc' = "fetch"
    /\ UNCHANGED <<diskVars, op, i, failed_states, reported, cleanVars, waited,
                   cleaned, osm_element>>

\* Saves every successful result, the empty list included.
MainSaves_AnySuccess(r) == ~r.none

\* Whether main persists the value fetch_masajid_for_state returned.
MainSaves(r) == ~r.none /\ Len(r.list) > 0

\* The pause moved into the save branch: no pause after a failure or an
\* empty result.
InterRequestPause_OnlyAfterSave(r) == IF ~r.none /\ Len(r.list) > 0 THEN 5 ELSE 0

\* time.sleep(5) at the end of the loop body, whatever the fetch returned.
InterRequestPause(r) == 5

\* The rest of the loop body once the region is dealt with: time.sleep(5)
\* and the next region.
MainNextRegion ==
    /\ i' = i + 1
    /\ pc' = "loop"
    /\ waited' = waited + InterRequestPause(masajid)
    /\ attempted' = SetLast(attempted, <<state_name, Outcome(masajid)>>)
    /\ ClearFetchLocals

\* Loop body after the call returned: save_state_data opens the file, or the
\* failure is recorded, or (empty success) nothing is done.
MainHandle ==
    /\ op = "main" /\ pc = "returned"
    /\ IF MainSaves(masajid)
       THEN /\ files' = OpenForWrite(files, FileName(state_name))
            /\ partial' = partial \cup {FileName(state_name)}
            /\ pc' = "saving"
            /\ UNCHANGED <<mainVars, fetchVars, waited>>
       ELSE /\ failed_states' = IF masajid.none
                                THEN Append(failed_states, state_name)
                                ELSE failed_states
            /\ MainNextRegion
            /\ UNCHANGED <<files, partial, reported>>
    /\ UNCHANGED <<index, op, cleanVars, cleaned, osm_element>>

\* save_state_data: json.dump has written the whole file; then the pause.
MainSaved ==
    /\ op = "main" /\ pc = "saving"
    /\ files' = save_state_data(files, state_name, masajid.list)
    /\ partial' = partial \ {FileName(state_name)}
    /\ MainNextRegion
    /\ UNCHANGED <<index, op, failed_states, reported, cleanVars, cleaned,
                   osm_element>>

\* After the loop: the failure summary, then create_master_index.  Every
\* file of a catalog region has been read by the loop, so none is truncated.
MainFinish ==
    /\ op = "main" /\ pc = "loop"
    /\ i > Len(US_STATES)
    /\ partial = {}
    /\ reported' = failed_states
    /\ \E order \in Orders(DOMAIN files) :
          index' = <<create_master_index(files, order)>>
    /\ pc' = "done"
    /\ waited' = 0
    /\ UNCHANGED <<files, partial, op, i, fetchVars, failed_states, attempted,
                   cleanVars, cleaned, osm_element>>

-----------------------------------------------------------------------------
(* fetch-one: fetch_single_state of fetch_masajid.py *)

Catalog == {US_STATES[n] : n \in DOMAIN US_STATES}

\* python fetch_masajid.py <state>: an unknown name prints the catalog and
\* returns; a known one is fetched whether or not its file exists.
StartSingle ==
    /\ Idle
    /\ op' = "single"
    /\ cleaned' = FALSE
    /\ i' = 1
    /\ attempt' = 0
    /\ net_log' = <<>>
    /\ masajid' = NoReturn
    /\ failed_states' = <<>>
    /\ reported' = <<>>
    /\ waited' = 0
    /\ ClearCleanupLocals
    /\ \E sn \in Catalog \cup {"atlantis"} :
          IF sn \notin Catalog
          THEN state_name' = "" /\ pc' = "done" /\ attempted' = <<>>
          ELSE /\ state_name' = sn
               /\ pc' = "fetch"
               /\ attempted' = <<<<sn, "pending">>>>
    /\ UNCHANGED <<diskVars, osm_element>>

\* Saves whatever came back, None included (as an empty list).
SingleSaves_Always(r) == TRUE

\* Whether fetch_single_state persists the returned value: if masajid.
SingleSaves(r) == ~r.none /\ Len(r.list) > 0

\* After the call returned: save_state_data opens the file, or nothing.
SingleHandle ==
    /\ op = "single" /\ pc = "returned"
    /\ IF SingleSaves(masajid)
       THEN /\ files' = OpenForWrite(files, FileName(state_name))
            /\ partial' = partial \cup {FileName(state_name)}
            /\ pc' = "saving"
            /\ UNCHANGED <<fetchVars, attempted>>
       ELSE /\ pc' = "done"
            /\ attempted' = SetLast(attempted, <<state_name, Outcome(masajid)>>)
            /\ ClearFetchLocals
            /\ UNCHANGED <<files, partial>>
    /\ UNCHANGED <<index, op, i, failed_states, reported, cleanVars, waited,
                   cleaned, osm_element>>

\* save_state_data: json.dump has written the whole file.
SingleSaved ==
    /\ op = "single" /\ pc = "saving"
    /\ files' = save_state_data(files, state_name, masajid.list)
    /\ partial' = partial \ {FileName(state_name)}
    /\ pc' = "done"
    /\ attempted' = SetLast(attempted, <<state_name, Outcome(masajid)>>)
    /\ ClearFetchLocals
    /\ UNCHANGED <<index, op, i, failed_states, reported, cleanVars, waited,
                   cleaned, osm_element>>

-----------------------------------------------------------------------------
(* cleanup: main of cleanup_data.py *)

\* python cleanup_data.py
StartCleanup ==
    /\ Idle
    /\ op' = "cleanup"
    /\ pc' = "clean"
    /\ i' = 1
    /\ failed_states' = <<>>
    /\ reported' = <<>>
    /\ attempted' = <<>>
    /\ waited' = 0
    /\ ClearFetchLocals
    /\ listing' = SortedNames(DOMAIN files)
    /\ j' = 1
    /\ cl_counts' = <<>>
    /\ cl_total' = 0
    /\ cl_data' = <<>>
    /\ UNCHANGED <<diskVars, cleaned, osm_element>>

\* clean_state_file up to open(filepath, 'w'): the file is loaded, filtered
\* and recounted in memory, and opened for writing.
CleanFile ==
    /\ op = "cleanup" /\ pc = "clean"
    /\ j <= Len(listing)
    /\ listing[j] \notin partial
    /\ cl_data' = <<clean_state_file(files[listing[j]])>>
    /\ files' = OpenForWrite(files, listing[j])
    /\ partial' = partial \cup {listing[j]}
    /\ pc' = "cleaning"
    /\ UNCHANGED <<index, op, mainVars, fetchVars, listing, j, cl_counts,
                   cl_total, waited, cleaned, osm_element>>

\* clean_state_file: json.load raises on a file that an interrupted write
\* left truncated; nothing catches it.
CleanRaises ==
    /\ op = "cleanup" /\ pc = "clean"
    /\ j <= Len(listing)
    /\ listing[j] \in partial
    /\ Traceback

\* clean_state_file from json.dump on, and the running totals of main.
CleanWritten ==
    /\ op = "cleanup" /\ pc = "cleaning"
    /\ LET data == cl_data[1]
       IN  /\ files' = WriteFile(files, listing[j], data)
           /\ cl_counts' = DictSet(cl_counts, data.state, data.count)
           /\ cl_total' = cl_total + data.count
    /\ partial' = partial \ {listing[j]}
    /\ cl_data' = <<>>
    /\ j' = j + 1
    /\ pc' = "clean"
    /\ UNCHANGED <<index, op, mainVars, fetchVars, listing, waited, cleaned,
                   osm_element>>

\* After the loop: the zero filter, the sort and the index write.
CleanupFinish ==
    /\ op = "cleanup" /\ pc = "clean"
    /\ j > Len(listing)
    /\ index' = <<cleanup_index(cl_counts, cl_total)>>
    /\ pc' = "done"
    /\ cleaned' = TRUE
    /\ ClearCleanupLocals
    /\ UNCHANGED <<files, partial, op, mainVars, fetchVars, waited, osm_element>>

-----------------------------------------------------------------------------
(* The operator ends the process from outside (Ctrl-C, kill). *)

Interrupt ==
    /\ pc \in {"loop", "fetch", "returned", "saving", "clean", "cleaning"}
    /\ pc' = "killed"
    /\ i' = 1
    /\ failed_states' = <<>>
    /\ attempted' = <<>>
    /\ waited' = 0
    /\ cleaned' = FALSE
    /\ ClearFetchLocals
    /\ ClearCleanupLocals
    /\ UNCHANGED <<diskVars, op, reported, osm_element>>

Next ==
    \/ StartMain
    \/ MainSkip
    \/ MainSkipRaises
    \/ MainFetch
    \/ AttemptFails
    \/ AttemptSucceeds
    \/ AttemptRaises
    \/ MainHandle
    \/ MainSaved
    \/ MainFinish
    \/ StartSingle
    \/ SingleHandle
    \/ SingleSaved
    \/ StartCleanup
    \/ CleanFile
    \/ CleanRaises
    \/ CleanWritten
    \/ CleanupFinish
    \/ Interrupt

Spec == Init /\ [][Next]_vars

-----------------------------------------------------------------------------
(* One raw element through fetch-one: the normalizer on every tag layout *)

\* The tags that name and address resolution read, with a value for each.
TagValue ==
    [k \in {"name", "name:en", "name:ar", "addr:housenumber", "addr:street",
            "addr:full"} |->
        CASE k = "name" -> "Masjid Al-Noor"
          [] k = "name:en" -> "Al-Noor Mosque"
          [] k = "name:ar" -> "Masjid an-Nur"
          [] k = "addr:housenumber" -> "12"
          [] k = "addr:street" -> "Main St"
          [] k = "addr:full" -> "12 Main St, Tampa"]

NameKeys == {"name", "name:en", "name:ar"}

\* Every layout: a name tag is absent, present and empty, or present with a
\* value; an address tag is absent or present with a value.
TagLayouts ==
    {ch \in [DOMAIN TagValue -> {"absent", "empty", "value"}] :
        \A k \in DOMAIN TagValue \ NameKeys : ch[k] # "empty"}

TagsOf(ch) ==
    [k \in {t \in DOMAIN ch : ch[t] # "absent"} |->
        IF ch[k] = "empty" THEN "" ELSE TagValue[k]]

\* Where the coordinates of an element are, or are not.
NodePlaces ==
    {[type |-> "node", id |-> 7, lat |-> 40, lon |-> -75],
     [type |-> "node", id |-> 7, lat |-> 40],
     [type |-> "node", id |-> 7, lon |-> -75],
     [type |-> "node", id |-> 7],
     [type |-> "node", id |-> 7, lat |-> 0, lon |-> -75]}

CenterPlaces(type) ==
    {[type |-> type, id |-> 7, center |-> [lat |-> 40, lon |-> -75]],
     [type |-> type, id |-> 7, center |-> [lat |-> 40]],
     [type |-> type, id |-> 7, center |-> [lon |-> -75]],
     [type |-> type, id |-> 7]}

Places == NodePlaces \cup CenterPlaces("way") \cup CenterPlaces("relation")

WithTags(place, tags) ==
    [k \in DOMAIN place \cup {"tags"} |-> IF k = "tags" THEN tags ELSE place[k]]

RawElements ==
    {WithTags(p, TagsOf(ch)) : p \in Places, ch \in TagLayouts} \cup {ElemNoType}

\* The process has not been started; upstream will answer with the element
\* osm_element followed by ElemNamed.
InitParse ==
    /\ files = [n \in {} |-> 0]
    /\ partial = {}
    /\ index = <<>>
    /\ osm_element \in {<<e>> : e \in RawElements}
    /\ InitLocals

\* The one pass of the retry loop when upstream answers at once: the loop
\* over the elements, parse_masjid on each, KeyError uncaught.
FetchElement ==
    /\ pc = "fetch"
    /\ osm_element # <<>>
    /\ LET elements == <<osm_element[1], ElemNamed>>
       IN  IF \E n \in DOMAIN elements : ParseRaises(elements[n])
           THEN Traceback
           ELSE /\ masajid' = [none |-> FALSE,
                               list |-> ParseAll(elements, state_name)]
                /\ net_log' = Append(net_log, "ok")
                /\ pc' = "returned"
                /\ waited' = 0
                /\ UNCHANGED <<diskVars, op, mainVars, state_name, attempt,
                               cleanVars, cleaned, osm_element>>

NextParse ==
    \/ StartSingle
    \/ FetchElement
    \/ SingleHandle
    \/ SingleSaved

SpecParse == InitParse /\ [][NextParse]_vars

-----------------------------------------------------------------------------
(* Cleanup runs over a states directory that the fetch path has written *)

\* Longest record list of a region file the cleanup runs start from.
MaxRecords == 2

\* An element whose name tag is the sentinel text with surrounding blanks.
ElemPadded ==
    [type |-> "node", id |-> 5, lat |-> 38, lon |-> -77,
     tags |-> ("name" :> " Unknown Masjid ")]

CleanupPool == {ElemNamed, ElemUnnamed, ElemPadded}

\* The non-empty record lists save_state_data is called with for a region.
StoredLists ==
    [sn \in Catalog |->
        {ParseAll(es, sn) : es \in SeqsUpTo(CleanupPool, MaxRecords)} \ {<<>>}]

\* The states directory after save_state_data(sn, lists[sn], ...) for every
\* region sn in the domain of lists.
DiskOf(lists) ==
    [n \in {FileName(sn) : sn \in DOMAIN lists} |->
        LET sn == CHOOSE s \in DOMAIN lists : FileName(s) = n
        IN  save_state_data(<<>>, sn, lists[sn])[n]]

SavedDisks ==
    UNION {{DiskOf(lists) :
              lists \in {f \in [S -> UNION {StoredLists[sn] : sn \in S}] :
                            \A sn \in S : f[sn] \in StoredLists[sn]}} :
           S \in SUBSET Catalog}

InitCleanup ==
    /\ files \in SavedDisks
    /\ partial = {}
    /\ index = <<>>
    /\ osm_element = <<>>
    /\ InitLocals

NextCleanup ==
    \/ StartCleanup
    \/ CleanFile
    \/ CleanWritten
    \/ CleanupFinish

SpecCleanup == InitCleanup /\ [][NextCleanup]_vars

-----------------------------------------------------------------------------
(* Cleanup and index rebuild over a states directory that has been damaged *)

\* A region file as something other than this program may leave it: intact,
\* with a count that is not the length of its list, or cut short.
Damaged(data) ==
    {data, [data EXCEPT !.count = data.count + 1], Truncated}

\* Every catalog region has a file; each file is intact or damaged.
InitCorrupt ==
    /\ \E disk \in {d \in SavedDisks : DOMAIN d = {FileName(sn) : sn \in Catalog}} :
          /\ files \in {fs \in [DOMAIN disk -> UNION {Damaged(disk[n]) : n \in DOMAIN disk}] :
                           \A n \in DOMAIN disk : fs[n] \in Damaged(disk[n])}
          /\ partial = {n \in DOMAIN files : files[n] = Truncated}
    /\ index = <<>>
    /\ osm_element = <<>>
    /\ InitLocals

NextCorrupt ==
    \/ StartCleanup
    \/ CleanFile
    \/ CleanRaises
    \/ CleanWritten
    \/ CleanupFinish
    \/ StartMain
    \/ MainSkip
    \/ MainSkipRaises
    \/ MainFinish

SpecCorrupt == InitCorrupt /\ [][NextCorrupt]_vars

-----------------------------------------------------------------------------
(* Properties *)

AllTransient(log) == \A n \in DOMAIN log : log[n] = "RequestException"

\* The history entries of this run with the given outcome.
RegionsWith(outcome) ==
    {attempted[n][1] : n \in {m \in DOMAIN attempted : attempted[m][2] = outcome}}

InSeq(x, s) == \E n \in DOMAIN s : s[n] = x

IndexKeys == IF index = <<>> THEN {}
             ELSE {index[1].state_counts[n][1] : n \in DOMAIN index[1].state_counts}

\* C1: a fetch_masajid_for_state call makes at most 3 network attempts; while
\* it is still trying, every attempt so far raised a transient error; it
\* returns a parsed list exactly when its last attempt is its first success,
\* and None exactly when all 3 attempts raised a transient error.
C1_BoundedRetry ==
    /\ Len(net_log) <= 3
    /\ pc = "fetch" => Len(net_log) < 3 /\ AllTransient(net_log)
    /\ pc = "returned" =>
          /\ Len(net_log) >= 1
          /\ AllTransient(SubSeq(net_log, 1, Len(net_log) - 1))
          /\ masajid.none <=>
                (Len(net_log) = 3 /\ net_log[3] = "RequestException")
          /\ ~masajid.none <=> net_log[Len(net_log)] = "ok"
          /\ ~masajid.none => masajid.list \in ParsedLists[state_name]

\* All three attempts failed and the call returned None.
C1_Witness ==
    /\ pc = "returned"
    /\ masajid.none
    /\ net_log = <<"RequestException", "RequestException", "RequestException">>

C3_FailureStep ==
    (pc = "fetch" \/ (pc = "returned" /\ masajid.none)) =>
        /\ files' = files
        /\ (op = "main" /\ pc = "returned" /\ pc' = "loop") =>
               failed_states' = Append(failed_states, state_name)

C3_FailureSummary ==
    /\ op = "main" => \A sn \in RegionsWith("failed") : InSeq(sn, failed_states)
    /\ (op = "main" /\ pc = "done") => reported = failed_states
    /\ \A sn \in RegionsWith("failed") :
          op = "main" => FileName(sn) \notin DOMAIN files

\* C3: a failed fetch leaves the region files as they were, and fetch-all
\* lists the failed region in its summary.
C3_FailureIsolated == [][C3_FailureStep]_vars /\ []C3_FailureSummary

\* fetch-single-region failed for a region that already had a file.
C3_Witness ==
    /\ op = "single" /\ pc = "done"
    /\ \E sn \in RegionsWith("failed") : FileName(sn) \in DOMAIN files

\* C4 as stated: whatever the upstream service returns for a region, the
\* fetch-all run goes on to the remaining regions and to the index rebuild;
\* it never ends in an uncaught exception.
C4_Original == ~(op = "main" /\ pc = "raised")

\* C5: when the loop of fetch-all reaches a region whose file exists, it moves
\* on with no fetch call and no network attempt and leaves the files alone;
\* when the file does not exist it calls the fetch for that region.  A
\* fetch-all run never makes a network attempt for a region that has a file,
\* and never changes a file that exists.
C5_LoopStep ==
    (op = "main" /\ pc = "loop" /\ i <= Len(US_STATES) /\ pc' # "killed") =>
        IF FileName(US_STATES[i]) \in DOMAIN files
        THEN /\ files' = files
             /\ pc' # "raised" => attempted' = attempted
             /\ net_log' = net_log
             /\ pc' # "fetch"
        ELSE /\ pc' = "fetch"
             /\ state_name' = US_STATES[i]
             /\ attempted' = Append(attempted, <<US_STATES[i], "pending">>)

C5_ExistingKept ==
    (op = "main" /\ op' = "main") =>
        \A n \in DOMAIN files :
            /\ n \in DOMAIN files'
            /\ \/ files'[n] = files[n]
               \/ pc = "saving" /\ n = FileName(state_name) /\ n \in partial

C5_NoRefetch ==
    (op = "main" /\ pc \in {"fetch", "returned"}) =>
        FileName(state_name) \notin DOMAIN files

C6_CountInvariant ==
    \A n \in DOMAIN files \ partial : files[n].count = Len(files[n].masajid)

\* A file that cleanup emptied next to one that a fetch wrote with two records.
C6_Witness ==
    /\ op = "cleanup" /\ pc = "done"
    /\ \E n, m \in DOMAIN files :
          /\ files[n].masajid = <<>>
          /\ Len(files[m].masajid) = 2

\* C7 as stated: no region file holds two records with the same id.
C7_Original ==
    \A n \in DOMAIN files :
        \A a, b \in DOMAIN files[n].masajid :
            a # b => files[n].masajid[a].id # files[n].masajid[b].id

\* Sum of count over the given files.
RECURSIVE SumCounts(_, _)
SumCounts(fs, names) ==
    IF names = {} THEN 0
    ELSE LET n == CHOOSE x \in names : TRUE
         IN  fs[n].count + SumCounts(fs, names \ {n})

NonEmptyFiles(fs) == {n \in DOMAIN fs : fs[n].count > 0}

\* C8 as stated: the index written at the end of fetch-all or cleanup has
\* total_count = the sum of count over the files with count > 0, and
\* state_counts = exactly the regions with count > 0, each with its count,
\* in key order.
C8_Original ==
    (pc = "done" /\ op \in {"main", "cleanup"}) =>
        /\ index # <<>>
        /\ LET sc == index[1].state_counts
           IN  /\ index[1].total_count = SumCounts(files, NonEmptyFiles(files))
               /\ {sc[n] : n \in DOMAIN sc} =
                     {<<files[f].state, files[f].count>> : f \in NonEmptyFiles(files)}
               /\ Len(sc) = Cardinality(NonEmptyFiles(files))
               /\ \A a, b \in DOMAIN sc : a < b => StrLess(sc[a][1], sc[b][1])

\* C9 as stated: whenever the index file exists, its total_count is the sum of
\* the state_counts values and no state_counts value is 0.
C9_Original ==
    index # <<>> =>
        LET sc == index[1].state_counts
        IN  /\ index[1].total_count = SeqSum([n \in DOMAIN sc |-> sc[n][2]])
            /\ \A n \in DOMAIN sc : sc[n][2] # 0

\* The index agrees with the region files: every entry is the count of the
\* file of that region, every file with records has its entry, and
\* total_count is the sum of the counts of the files.
IndexAgrees ==
    /\ index # <<>>
    /\ LET sc == index[1].state_counts
       IN  /\ \A a, b \in DOMAIN sc : a # b => sc[a][1] # sc[b][1]
           /\ \A n \in DOMAIN sc :
                 \E f \in DOMAIN files :
                    files[f].state = sc[n][1] /\ files[f].count = sc[n][2]
           /\ \A f \in NonEmptyFiles(files) :
                 \E n \in DOMAIN sc : sc[n] = <<files[f].state, files[f].count>>
           /\ index[1].total_count = SumCounts(files, DOMAIN files)

\* C10 as stated: after any completed operation that wrote or rewrote a
\* region file (fetch-all, fetch-single-region, cleanup) the index agrees
\* with the region files.
C10_Original ==
    (/\ pc = "done"
     /\ \/ op = "main" /\ RegionsWith("success") # {}
        \/ op = "single" /\ RegionsWith("success") # {}
        \/ op = "cleanup" /\ DOMAIN files # {}) => IndexAgrees

\* C10 amended: after a completed fetch-all run and after a completed cleanup
\* run the index agrees with the region files; fetch-single-region writes a
\* region file and leaves the index as it was.
C10_RebuildAgrees ==
    (pc = "done" /\ op \in {"main", "cleanup"}) => IndexAgrees

C10_SingleLeavesIndex == (op = "single" /\ op' = "single") => index' = index

\* C10 amended: the index agrees with the region files after fetch-all and
\* after cleanup; fetch-single-region never writes the index.
C10_NoDriftAfterRebuild == []C10_RebuildAgrees /\ [][C10_SingleLeavesIndex]_vars

\* A fetch-all run that wrote region files for both regions has completed.
C10_Witness ==
    /\ op = "main" /\ pc = "done"
    /\ Cardinality(RegionsWith("success")) = 2

\* C11 as stated: the index cleanup writes is the index create_master_index
\* writes from the same region files, whatever order its glob delivers them
\* in: same total_count, same state_counts entries, same key order.
C11_Original ==
    (op = "cleanup" /\ pc = "done") =>
        \A order \in Orders(DOMAIN files) :
            index[1] = create_master_index(files, order)


\* C13 as stated: region file writes are atomic, so at no point, an
\* interruption in the middle of a save or of a cleanup rewrite included, is
\* there a region file on disk that holds only part of what was being written.
C13_Original == partial = {}


\* C12: once a cleanup run has completed, no region file holds a record named
\* "Unknown Masjid"; this stays so through the runs that follow.
C12_NoSentinelLeft ==
    cleaned =>
        \A n \in DOMAIN files \ partial : \A k \in DOMAIN files[n].masajid :
            files[n].masajid[k].name # "Unknown Masjid"

\* C12: in a cleanup run that follows a completed one, clean_state_file
\* removes nothing (the data it is about to write is the file as it was
\* read, records and count), the rewrite puts exactly that data back, and the
\* index written at the end is the index the previous run wrote.
C12_SecondRunStep ==
    (cleaned /\ op = "cleanup") =>
        /\ (pc = "clean" /\ pc' = "cleaning") =>
               /\ cl_data' = <<files[listing[j]]>>
               /\ \A n \in DOMAIN files \ {listing[j]} :
                      n \in DOMAIN files' /\ files'[n] = files[n]
        /\ (pc = "cleaning" /\ pc' = "clean") =>
               /\ files' = WriteFile(files, listing[j], cl_data[1])
               /\ DOMAIN files' = DOMAIN files
        /\ (pc = "clean" /\ pc' = "done") =>
               /\ index' = index
               /\ files' = files

\* C12: cleanup is idempotent: after one run no record named
\* "Unknown Masjid" is left, and a second run changes neither the region
\* files' records and counts nor the index's total_count and state_counts.
C12_Idempotent == []C12_NoSentinelLeft /\ [][C12_SecondRunStep]_vars

\* A second cleanup run has rewritten both region files, one of which the
\* first run emptied, and is about to write the index.
C12_Witness ==
    /\ cleaned /\ op = "cleanup" /\ pc = "clean"
    /\ Len(listing) = 2 /\ j > Len(listing)
    /\ \E n, m \in DOMAIN files : files[n].count = 0 /\ files[m].count > 0


Malformed(n) == n \in partial \/ files[n].count # Len(files[n].masajid)

\* C14 as stated: when cleanup reaches a region file that does not parse or
\* whose count is not the length of its list, and when the index rebuild of
\* fetch-all runs over such a file, the operation ends with an error: the
\* file is not rewritten and no index is written.
C14_FatalStep ==
    /\ (/\ op = "cleanup" /\ pc = "clean" /\ j <= Len(listing)
        /\ Malformed(listing[j])) =>
           pc' = "raised" /\ files' = files /\ index' = index
    /\ (/\ op = "main" /\ pc = "loop" /\ i > Len(US_STATES)
        /\ \E n \in DOMAIN files : Malformed(n)) =>
           pc' = "raised" /\ files' = files /\ index' = index

\* C14 as stated, over every step of the program.
C14_Original == [][C14_FatalStep]_vars


\* Written from the claim: a node without lat or lon, a way or relation
\* without a center or with a center that lacks lat or lon.
Unresolvable(e) ==
    /\ "type" \in DOMAIN e
    /\ e["type"] \in {"node", "way", "relation"}
    /\ IF e["type"] = "node"
       THEN "lat" \notin DOMAIN e \/ "lon" \notin DOMAIN e
       ELSE \/ "center" \notin DOMAIN e
            \/ "lat" \notin DOMAIN e["center"]
            \/ "lon" \notin DOMAIN e["center"]

\* C15: the pass over a response whose first element has no resolvable
\* coordinates returns normally, with that element dropped and the element
\* after it kept.
C15_DropStep ==
    (pc = "fetch" /\ Unresolvable(osm_element[1])) =>
        /\ pc' = "returned"
        /\ ~masajid'.none
        /\ masajid'.list = parse_masjid(ElemNamed, state_name)

\* C15: every record of every completely written region file has a lat and
\* a lon that are not null.
C15_Persisted ==
    \A n \in DOMAIN files \ partial : \A k \in DOMAIN files[n].masajid :
        /\ files[n].masajid[k].coordinates.lat # None
        /\ files[n].masajid[k].coordinates.lon # None

\* C15: an element without resolvable coordinates is dropped without failing
\* the fetch, and no record without coordinates is persisted.
C15_NoRecordWithoutCoordinates == [][C15_DropStep]_vars /\ []C15_Persisted

\* A way whose center lacks lon was dropped, and the region file written
\* from the rest of the response is on disk.
C15_Witness ==
    /\ op = "single" /\ pc = "done"
    /\ Unresolvable(osm_element[1])
    /\ osm_element[1]["type"] = "way"
    /\ "center" \in DOMAIN osm_element[1]
    /\ \E n \in DOMAIN files \ partial : Len(files[n].masajid) = 1


\* C16 as stated: each failed attempt k = 1, 2, 3 of a fetch is followed by a
\* wait of 10 * k seconds.
C16_OriginalStep ==
    (pc = "fetch" /\ net_log' = Append(net_log, "RequestException")) =>
        waited' = 10 * Len(net_log')

C16_BackoffStep ==
    (pc = "fetch" /\ net_log' = Append(net_log, "RequestException")) =>
        IF Len(net_log') < retries
        THEN waited' = 10 * Len(net_log') /\ pc' = "fetch"
        ELSE waited' = 0 /\ pc' = "returned" /\ masajid'.none

\* C16 amended: an attempt that follows k failed ones starts only after the
\* wait of 10 * k seconds.
C16_WaitElapsed ==
    (pc = "fetch" /\ net_log # <<>>) => waited = 10 * Len(net_log)

C17_PauseStep ==
    (op = "main" /\ pc \in {"returned", "saving"} /\ pc' = "loop") =>
        waited' = waited + 5

\* C17: when fetch-all makes the first network call for a region and has
\* attempted another region before it in the same run, at least 5 seconds
\* have been slept since that region's last network call.
C17_CallStep ==
    (/\ op = "main" /\ pc = "fetch"
     /\ net_log = <<>> /\ net_log' # <<>>
     /\ Len(attempted) > 1) => waited >= 5

\* C17: fetch-all pauses 5 seconds after every attempted region, so no two
\* regions' network calls happen without the pause between them.
C17_PauseBetweenRegions == [][C17_PauseStep /\ C17_CallStep]_vars

\* The second region is about to be called after the first one failed.
C17_Witness ==
    /\ op = "main" /\ pc = "fetch" /\ net_log = <<>>
    /\ Len(attempted) = 2
    /\ attempted[1][2] = "failed"
    /\ waited = 5


\* Written from the claim: the first of name, name:en, name:ar that is
\* present and not empty, the sentinel when there is none.
FirstNonEmptyName(tags) ==
    IF Get(tags, "name", "") # "" THEN tags["name"]
    ELSE IF Get(tags, "name:en", "") # "" THEN tags["name:en"]
    ELSE IF Get(tags, "name:ar", "") # "" THEN tags["name:ar"]
    ELSE "Unknown Masjid"

\* C18 as stated: whatever combination of name, name:en and name:ar is
\* absent, empty or filled, the record's name is the first non-empty of the
\* three, and the sentinel exactly when none is non-empty.
C18_Original ==
    (pc = "returned" /\ osm_element # <<>> /\ Len(masajid.list) = 2) =>
        masajid.list[1].name =
            FirstNonEmptyName(Get(osm_element[1], "tags", NoTags))


\* Written from the claim: house number and street joined by a blank when
\* both are present, whichever one is present otherwise, and `neither` when
\* neither is.
ComposedStreet(tags, neither) ==
    IF "addr:housenumber" \in DOMAIN tags /\ "addr:street" \in DOMAIN tags
    THEN tags["addr:housenumber"] \o " " \o tags["addr:street"]
    ELSE IF "addr:street" \in DOMAIN tags THEN tags["addr:street"]
    ELSE IF "addr:housenumber" \in DOMAIN tags THEN tags["addr:housenumber"]
    ELSE neither

\* C19 as stated: address.street is the joined house number and street, or
\* whichever is present, or the addr:full value when neither is present.
C19_Original ==
    (pc = "returned" /\ osm_element # <<>> /\ Len(masajid.list) = 2) =>
        LET tags == Get(osm_element[1], "tags", NoTags)
        IN  masajid.list[1].address.street =
                ComposedStreet(tags, Get(tags, "addr:full", ""))

\* C19 amended: address.street is the joined house number and street, or
\* whichever is present, and empty when neither is present, with or without
\* addr:full; the addr:full value goes to address.full only.
C19_StreetComposition ==
    (pc = "returned" /\ osm_element # <<>> /\ Len(masajid.list) = 2) =>
        LET tags == Get(osm_element[1], "tags", NoTags)
        IN  /\ masajid.list[1].address.street = ComposedStreet(tags, "")
            /\ masajid.list[1].address.full = Get(tags, "addr:full", "")

\* An element with addr:full and neither house number nor street was parsed.
C19_Witness ==
    /\ pc = "returned" /\ osm_element # <<>> /\ Len(masajid.list) = 2
    /\ LET tags == Get(osm_element[1], "tags", NoTags)
       IN  /\ "addr:full" \in DOMAIN tags
           /\ "addr:street" \notin DOMAIN tags
           /\ "addr:housenumber" \notin DOMAIN tags
    /\ masajid.list[1].address.street = ""
    /\ masajid.list[1].address.full = "12 Main St, Tampa"


\* The k-th smallest member of a set of list positions.
KthKept(keep, k) ==
    CHOOSE x \in keep : Cardinality({y \in keep : y <= x}) = k

\* Written from the claim: new is old without the records at the positions
\* in removed, the others in their order and as they were, and its count is
\* the old length less the number removed.
FilteredExactly(old, new, removed) ==
    LET keep == DOMAIN old.masajid \ removed
    IN  /\ Len(new.masajid) = Cardinality(keep)
        /\ \A k \in DOMAIN new.masajid :
               new.masajid[k] = old.masajid[KthKept(keep, k)]
        /\ new.count = Len(old.masajid) - Cardinality(removed)
        /\ new.state = old.state

\* C20 as stated: the data cleanup writes back for a region file is the
\* original without exactly the records whose name is "Unknown Masjid".
C20_OriginalStep ==
    (op = "cleanup" /\ pc = "clean" /\ pc' = "cleaning") =>
        LET old == files[listing[j]]
        IN  FilteredExactly(old, cl_data'[1],
                {k \in DOMAIN old.masajid :
                    old.masajid[k].name = "Unknown Masjid"})

C20_Original == [][C20_OriginalStep]_vars

\* C20 amended: the data cleanup writes back for a region file is the
\* original without exactly the records whose name, stripped of surrounding
\* whitespace, is "Unknown Masjid"; that data is what the rewrite puts in the
\* file; and the index of the run has a region exactly when its new count is
\* greater than 0.
C20_FilterStep ==
    /\ (op = "cleanup" /\ pc = "clean" /\ pc' = "cleaning") =>
           LET old == files[listing[j]]
           IN  FilteredExactly(old, cl_data'[1],
                   {k \in DOMAIN old.masajid :
                       Strip(old.masajid[k].name) = "Unknown Masjid"})
    /\ (op = "cleanup" /\ pc = "cleaning" /\ pc' = "clean") =>
           /\ files'[listing[j]] = cl_data[1]
           /\ \A n \in DOMAIN files \ {listing[j]} : files'[n] = files[n]
    /\ (op = "cleanup" /\ pc = "clean" /\ pc' = "done") =>
           \A n \in DOMAIN files :
               (\E e \in DOMAIN index'[1].state_counts :
                   index'[1].state_counts[e][1] = files[n].state)
                 <=> files[n].count > 0

C20_FilterExact == [][C20_FilterStep]_vars

\* The first cleanup run over two region files has emptied one of them and
\* left one record in the other.
C20_Witness ==
    /\ ~cleaned /\ op = "cleanup" /\ pc = "clean"
    /\ Len(listing) = 2 /\ j > Len(listing)
    /\ cl_total = 1
    /\ \E n \in DOMAIN files : files[n].count = 0

=============================================================================
